---- MODULE Spec2Model ----
(***************************************************************************)
(* Face-recognition kiosk: the identity matcher (AuthenticationService),   *)
(* the gallery load, the geometric gate and the session state machine      *)
(* with its frame loop and command handlers.                               *)
(*                                                                         *)
(* Embeddings are points of a small integer line (dimension 1 instead of   *)
(* 128); face_distance is the Euclidean norm, compared through its square  *)
(* (d <= t  <=>  d^2 <= t^2 for non-negative d, t).  A frame or stored     *)
(* image is the sequence of faces the detector finds in it.                *)
(***************************************************************************)
EXTENDS Integers, Sequences, FiniteSets, TLC

\* ------------------------------------------------------------------ bounds
MaxCoord == 2        \* embedding coordinates range over 0..MaxCoord
MaxGallery == 2      \* gallery entries in the matcher specification
MaxFaces == 2        \* faces per frame handed to authenticate_frame
MaxUsers == 2        \* user ids (uuid4 values) that can be generated

\* --------------------------------------------------------------- constants
tolerance == 1       \* self.tolerance, in grid units

Unknown == "Unknown"
Names == {"Alice", "Bob"}
UserIds == 1..MaxUsers
Embeddings == 0..MaxCoord

\* a location is (top, right, bottom, left)
ProbeLocations == {<<203, 765, 518, 515>>, <<100, 300, 200, 200>>}

\* a frame (or stored image) is the sequence of faces the detector finds in it;
\* None is the absent frame (camera miss, captured_frame = None)
None == [ok |-> FALSE, faces |-> << >>]
Frame(faces) == [ok |-> TRUE, faces |-> faces]

VARIABLES
  known_encodings,       \* AuthenticationService.known_encodings
  known_user_ids,        \* AuthenticationService.known_user_ids
  user_id_to_name_map,   \* AuthenticationService.user_id_to_name_map
  call,                  \* the matcher call last made: its name and argument
  result,                \* what that call returned
  metadata,              \* metadata.json: the sequence of user records
  dataset,               \* dataset/<user_id>/: the images saved for each user
  encodings_file,        \* encodings.pickle
  uuid_count,            \* how many uuid4 values have been generated
  constructed,           \* AuthenticationService.__init__ has returned
  loadPc,                \* _load_knowledge: the line the loading thread is at
  load_data,             \* _load_knowledge: its local encoding_data
  matchPc,               \* authenticate_face: the line the matching thread is at
  match_face,            \* authenticate_face: its argument face_data
  match_local,           \* authenticate_face: its locals face_distances and user_id
  mode,                  \* AppState.mode
  captured_frame,        \* AppState.captured_frame
  loopPc,                \* the frame loop: the line each generator is at
  loopFrame,             \* the frame loop: its local frame
  loopOut,               \* the frame loop: the annotation of the frame it emits
  loopStale,             \* history: the local frame was obtained before the last command returned
  capturedStale,         \* history: captured_frame was pulled before the last command returned
  cmdPc,                 \* the command handler that is running and the line it is at
  cmdName,               \* submit_registration: the name of the request form
  response,              \* the response of the last command
  lastCmd,               \* history: the command that returned last, until another begins
  cmdMode,               \* history: the mode when the last request arrived
  passwordOk,            \* history: some check_password request has succeeded
  loopHist,              \* history: what the current cycle of each frame loop has done
  regPc,                 \* register_new_user: the line each caller is at
  regLocal,              \* register_new_user: each caller's arguments and locals
  metadata_torn,         \* metadata.json is open for writing and holds no complete list
  program,               \* the entry point that is running: app.py or test_app.py
  app_cycle              \* app.py generate_frames: what its last cycle emitted

svcVars == <<known_encodings, known_user_ids, user_id_to_name_map>>
callVars == <<call, result>>
diskVars == <<metadata, dataset, encodings_file, uuid_count>>
loadVars == <<constructed, loadPc, load_data>>
matchVars == <<matchPc, match_face, match_local>>
sessVars == <<mode, captured_frame>>
loopVars == <<loopPc, loopFrame, loopOut, loopStale, capturedStale, loopHist>>
cmdHist == <<cmdMode, passwordOk>>
cmdVars == <<cmdPc, cmdName, response, lastCmd, cmdHist>>
appVars == <<program, app_cycle>>
regVars == <<regPc, regLocal, metadata_torn>>
\* what a step of the frame loop, of a command handler, of the gallery load and
\* of the stepwise matcher leaves alone
loopRest == <<svcVars, callVars, diskVars, loadVars, matchVars, cmdVars, appVars,
             regVars>>
cmdRest == <<svcVars, callVars, loadVars, matchVars, appVars, regVars>>
loadRest == <<callVars, diskVars, matchVars, sessVars, loopVars, cmdVars, appVars,
             regVars>>
matchRest == <<svcVars, diskVars, loadVars, sessVars, loopVars, cmdVars, appVars,
              regVars>>
vars == <<svcVars, callVars, diskVars, loadVars, matchVars, sessVars,
          loopVars, cmdVars, appVars, regVars>>

\* ------------------------------------------------------------ the matcher
\* squared Euclidean distance of two embeddings
DistSq(a, b) == (a - b) * (a - b)

\* face_recognition.face_distance(known, probe): one distance per known entry
face_distance(encodings, probe) ==
  [i \in 1..Len(encodings) |-> DistSq(encodings[i], probe)]

\* np.argmin: the first index of a minimal element
argminLast(d) ==
  CHOOSE i \in 1..Len(d) :
    /\ \A j \in 1..Len(d) : d[j] >= d[i]
    /\ \A j \in (i + 1)..Len(d) : d[j] > d[i]

argmin(d) ==
  CHOOSE i \in 1..Len(d) :
    /\ \A j \in 1..Len(d) : d[j] >= d[i]
    /\ \A j \in 1..(i - 1) : d[j] > d[i]

\* face_distances[best_match_index] <= self.tolerance
WithinToleranceStrict(dsq) == dsq < tolerance * tolerance

WithinTolerance(dsq) == dsq <= tolerance * tolerance

\* dict.get(user_id, "Unknown")
MapGet(map, user_id) ==
  IF user_id \in DOMAIN map THEN map[user_id] ELSE Unknown

\* the name one probe encoding resolves to, `name` being the value the local
\* variable holds before the lookup
MatchName(encodings, ids, map, probe, name) ==
  LET d == face_distance(encodings, probe) IN
    IF Len(d) > 0
      THEN LET best == argmin(d) IN
             IF WithinTolerance(d[best]) THEN MapGet(map, ids[best]) ELSE name
      ELSE name

\* AuthenticationService.authenticate_face
authenticate_face(encodings, ids, map, face_data) ==
  << [name |-> MatchName(encodings, ids, map, face_data.encoding, Unknown),
      box |-> face_data.location] >>

\* the loop of authenticate_frame over detected_faces[k..]; `name` is the
\* method's local variable, assigned once before the loop
RECURSIVE RecognizeFrom(_, _, _, _, _, _)
RecognizeFrom(encodings, ids, map, faces, k, name) ==
  IF k > Len(faces) THEN << >>
  ELSE LET n == MatchName(encodings, ids, map, faces[k].encoding, name) IN
         << [name |-> n, box |-> faces[k].location] >>
           \o RecognizeFrom(encodings, ids, map, faces, k + 1, n)

\* AuthenticationService.authenticate_frame; `faces` is what
\* detect_and_encode_faces finds in the frame
authenticate_frame(encodings, ids, map, faces) ==
  IF encodings = << >> THEN << >>
  ELSE RecognizeFrom(encodings, ids, map, faces, 1, Unknown)

\* ------------------------------------------------------------ the geometry
FRAME_WIDTH == 1280
FRAME_HEIGHT == 720
GUIDE_BOX_WIDTH == 350
GUIDE_BOX_HEIGHT == 450
POSITION_THRESHOLD == 50
\* SIZE_THRESHOLD = 0.5, as the fraction SIZE_THRESHOLD_NUM / SIZE_THRESHOLD_DEN
SIZE_THRESHOLD_NUM == 1
SIZE_THRESHOLD_DEN == 2

\* (x, y, width, height)
GUIDE_BOX_RECT ==
  << (FRAME_WIDTH - GUIDE_BOX_WIDTH) \div 2,
     (FRAME_HEIGHT - GUIDE_BOX_HEIGHT) \div 2,
     GUIDE_BOX_WIDTH,
     GUIDE_BOX_HEIGHT >>

get_box_center(box) == << box[1] + box[3] \div 2, box[2] + box[4] \div 2 >>

get_box_area(box) == box[3] * box[4]

\* location = (top, right, bottom, left)  |->  ((left, top, w, h), area)
get_face_properties(location) ==
  LET top == location[1]
      right == location[2]
      bottom == location[3]
      left == location[4]
      w == right - left
      h == bottom - top
  IN [box |-> <<left, top, w, h>>, area |-> w * h]

\* distance is kept as its square; size_ratio as the fraction num / den
calculate_face_metrics(face_box, face_area) ==
  LET guide_center == get_box_center(GUIDE_BOX_RECT)
      face_center == get_box_center(face_box)
      dx == guide_center[1] - face_center[1]
      dy == guide_center[2] - face_center[2]
  IN [distance_sq |-> dx * dx + dy * dy,
      ratio_num |-> face_area,
      ratio_den |-> get_box_area(GUIDE_BOX_RECT)]

FaceMetrics(face) ==
  LET p == get_face_properties(face.location)
  IN calculate_face_metrics(p.box, p.area)

\* max(detected_faces, key=area): the first face of maximal area
largest_face_last(faces) ==
  LET area(i) == get_face_properties(faces[i].location).area
      best == CHOOSE i \in 1..Len(faces) :
                /\ \A j \in 1..Len(faces) : area(j) <= area(i)
                /\ \A j \in (i + 1)..Len(faces) : area(j) < area(i)
  IN faces[best]

largest_face(faces) ==
  LET area(i) == get_face_properties(faces[i].location).area
      best == CHOOSE i \in 1..Len(faces) :
                /\ \A j \in 1..Len(faces) : area(j) <= area(i)
                /\ \A j \in 1..(i - 1) : area(j) < area(i)
  IN faces[best]

\* distance <= POSITION_THRESHOLD
DistanceOk(m) == m.distance_sq <= POSITION_THRESHOLD * POSITION_THRESHOLD

\* size_ratio >= SIZE_THRESHOLD
SizeOk(m) == m.ratio_num * SIZE_THRESHOLD_DEN >= SIZE_THRESHOLD_NUM * m.ratio_den

CenterYourFace == "center your face"
MoveCloser == "move closer"
WillEnroll == "this face will be enrolled"
Authenticating == "authenticating"
NoMessage == "none"

\* app.py generate_frames: the check before authentication
AppGateStrict(m) ==
  m.distance_sq < POSITION_THRESHOLD * POSITION_THRESHOLD /\ SizeOk(m)

AppGate(m) == DistanceOk(m) /\ SizeOk(m)

\* app.py generate_frames: the feedback when the check fails
AppFeedback(m) == IF ~ DistanceOk(m) THEN CenterYourFace ELSE MoveCloser

\* StreamProcessor._handle_authentication_frame: the check and the feedback
AuthGateSizeStrict(m) ==
  /\ DistanceOk(m)
  /\ m.ratio_num * SIZE_THRESHOLD_DEN > SIZE_THRESHOLD_NUM * m.ratio_den

AuthGate(m) == DistanceOk(m) /\ SizeOk(m)

AuthFeedbackSizeFirst(m) == IF ~ SizeOk(m) THEN MoveCloser ELSE CenterYourFace

AuthFeedback(m) == IF ~ DistanceOk(m) THEN CenterYourFace ELSE MoveCloser

\* StreamProcessor._handle_registration_frame: the auto-freeze condition on the
\* largest face (the mode test is a separate read of app_state.mode)
RegGate(m) == DistanceOk(m) /\ SizeOk(m)

RegFeedback(m) == IF ~ DistanceOk(m) THEN CenterYourFace ELSE MoveCloser

\* ------------------------------------------------------- the data on disk
NoEncodingsFile == [exists |-> FALSE, encodings |-> << >>, user_ids |-> << >>]

NoImages == [u \in UserIds |-> << >>]

\* DataManager.read_metadata
read_metadata(md) == md

\* DataManager.load_encodings: the pickled dictionary, or None (exists = FALSE)
load_encodings(file) == file

\* DataManager.save_images_for_user: cv2.imwrite raises on an image that is None,
\* after the images before it have been written
RECURSIVE SavedImages(_)
SavedImages(images) ==
  IF images = << >> \/ ~ Head(images).ok THEN << >>
  ELSE <<Head(images)>> \o SavedImages(Tail(images))

\* RegistrationService.register_new_user, on the disk (md, ds) with cnt uuids
\* generated so far: the disk it leaves and how the call ends
RegisterNoCheck(name, images, md, ds, cnt) ==
  LET user_id == cnt + 1
      saved == SavedImages(images)
  IN [metadata |-> Append(read_metadata(md), [user_id |-> user_id, name |-> name]),
      dataset |-> [ds EXCEPT ![user_id] = saved],
      uuid_count |-> cnt + 1,
      outcome |-> IF Len(saved) = Len(images) THEN "ok" ELSE "cv2.error"]

register_new_user(name, images, md, ds, cnt) ==
  IF name = "" \/ images = << >>
    THEN [metadata |-> md, dataset |-> ds, uuid_count |-> cnt,
          outcome |-> "ValueError"]
    ELSE RegisterNoCheck(name, images, md, ds, cnt)

\* FaceProcessor.extract_encodings
extract_encodings(image) ==
  [i \in 1..Len(image.faces) |-> image.faces[i].encoding]

\* EncodingService.build_encodings_from_dataset: the (encoding, user_id) pairs
\* of the images of one user, from image k on
RECURSIVE EncodingsOfImages(_, _, _)
EncodingsOfImages(user_id, images, k) ==
  IF k > Len(images) THEN << >>
  ELSE LET encodings == extract_encodings(images[k]) IN
         (IF Len(encodings) = 1 THEN << <<encodings[1], user_id>> >> ELSE << >>)
           \o EncodingsOfImages(user_id, images, k + 1)

\* ... and of the users of the metadata, from record k on
RECURSIVE EncodingsOfUsers(_, _, _)
EncodingsOfUsers(md, ds, k) ==
  IF k > Len(md) THEN << >>
  ELSE EncodingsOfImages(md[k].user_id, ds[md[k].user_id], 1)
         \o EncodingsOfUsers(md, ds, k + 1)

\* EncodingService.build_encodings_from_dataset: the encodings file it leaves
build_encodings_from_dataset(md, ds, file) ==
  IF read_metadata(md) = << >> THEN file
  ELSE LET all == EncodingsOfUsers(read_metadata(md), ds, 1) IN
         IF all = << >> THEN file
         ELSE [exists |-> TRUE,
               encodings |-> [i \in 1..Len(all) |-> all[i][1]],
               user_ids |-> [i \in 1..Len(all) |-> all[i][2]]]

\* {user["user_id"]: user["name"] for user in metadata}
NameMapOf(md) ==
  [u \in {md[i].user_id : i \in 1..Len(md)} |->
     md[CHOOSE i \in 1..Len(md) :
          /\ md[i].user_id = u
          /\ \A j \in (i + 1)..Len(md) : md[j].user_id # u].name]

\* --------------------------------- AuthenticationService._load_knowledge
LoadIdle == loadPc = "idle" /\ load_data = NoEncodingsFile
MatchIdle ==
  /\ matchPc = "idle"
  /\ match_face = [location |-> <<0, 0, 0, 0>>, encoding |-> 0]
  /\ match_local = [dist |-> << >>, user_id |-> 0]

\* line 193: encoding_data = self.data_manager.load_encodings()
LoadBegin ==
  /\ loadPc = "idle"
  /\ load_data' = load_encodings(encodings_file)
  /\ loadPc' = "l194"
  /\ UNCHANGED <<svcVars, constructed>>
  /\ UNCHANGED loadRest

\* lines 194-195: if encoding_data: self.known_encodings = ...
Load195 ==
  /\ loadPc = "l194"
  /\ IF load_data.exists
       THEN /\ known_encodings' = load_data.encodings
            /\ loadPc' = "l196"
       ELSE /\ known_encodings' = known_encodings
            /\ loadPc' = "l204"
  /\ UNCHANGED <<known_user_ids, user_id_to_name_map, constructed, load_data>>
  /\ UNCHANGED loadRest

\* line 196: self.known_user_ids = ...
Load196 ==
  /\ loadPc = "l196"
  /\ known_user_ids' = load_data.user_ids
  /\ loadPc' = "l204"
  /\ UNCHANGED <<known_encodings, user_id_to_name_map, constructed, load_data>>
  /\ UNCHANGED loadRest

\* lines 204-205: the name map is rebuilt from the metadata, whatever
\* load_encodings returned
LoadedNameMap(md, old, data) == NameMapOf(read_metadata(md))

Load204 ==
  /\ loadPc = "l204"
  /\ user_id_to_name_map' = LoadedNameMap(metadata, user_id_to_name_map, load_data)
  /\ loadPc' = "idle"
  /\ load_data' = NoEncodingsFile
  /\ constructed' = TRUE
  /\ UNCHANGED <<known_encodings, known_user_ids>>
  /\ UNCHANGED loadRest

\* the three structures after __init__ on a given disk
LoadedService(md, file) ==
  [known_encodings |-> IF load_encodings(file).exists THEN file.encodings ELSE << >>,
   known_user_ids |-> IF load_encodings(file).exists THEN file.user_ids ELSE << >>,
   user_id_to_name_map |->
      LoadedNameMap(md, << >>, load_encodings(file))]

\* ----------------------- AuthenticationService.authenticate_face, by line
\* lines 223-228: the distances are computed over self.known_encodings
MatchBegin ==
  /\ matchPc = "idle"
  /\ constructed
  /\ \E face_data \in {[location |-> <<203, 765, 518, 515>>, encoding |-> e] :
                         e \in Embeddings} :
       /\ match_face' = face_data
       /\ match_local' = [dist |-> face_distance(known_encodings, face_data.encoding),
                          user_id |-> 0]
  /\ matchPc' = "m229"
  /\ UNCHANGED callVars
  /\ UNCHANGED matchRest

\* lines 229-231
Match229 ==
  /\ matchPc = "m229"
  /\ IF Len(match_local.dist) > 0
        /\ WithinTolerance(match_local.dist[argmin(match_local.dist)])
       THEN /\ matchPc' = "m232"
            /\ UNCHANGED <<callVars, match_face, match_local>>
       ELSE /\ matchPc' = "idle"
            /\ call' = [op |-> "authenticate_face", face |-> match_face,
                        raised |-> "no"]
            /\ result' = << [name |-> Unknown, box |-> match_face.location] >>
            /\ match_face' = [location |-> <<0, 0, 0, 0>>, encoding |-> 0]
            /\ match_local' = [dist |-> << >>, user_id |-> 0]
  /\ UNCHANGED matchRest

\* line 232: user_id = self.known_user_ids[best_match_index]
Match232 ==
  /\ matchPc = "m232"
  /\ LET best == argmin(match_local.dist) IN
       IF best \in 1..Len(known_user_ids)
         THEN /\ match_local' = [match_local EXCEPT !.user_id = known_user_ids[best]]
              /\ matchPc' = "m233"
              /\ UNCHANGED <<callVars, match_face>>
         ELSE /\ matchPc' = "idle"
              /\ call' = [op |-> "authenticate_face", face |-> match_face,
                          raised |-> "IndexError"]
              /\ result' = << >>
              /\ match_face' = [location |-> <<0, 0, 0, 0>>, encoding |-> 0]
              /\ match_local' = [dist |-> << >>, user_id |-> 0]
  /\ UNCHANGED matchRest

\* lines 233-234
Match233 ==
  /\ matchPc = "m233"
  /\ matchPc' = "idle"
  /\ call' = [op |-> "authenticate_face", face |-> match_face, raised |-> "no"]
  /\ result' = << [name |-> MapGet(user_id_to_name_map, match_local.user_id),
                   box |-> match_face.location] >>
  /\ match_face' = [location |-> <<0, 0, 0, 0>>, encoding |-> 0]
  /\ match_local' = [dist |-> << >>, user_id |-> 0]
  /\ UNCHANGED matchRest

\* ------------------------------------------------------------ the frames
Face(location, encoding) == [location |-> location, encoding |-> encoding]

\* the location of a w x h face box whose centre, as get_box_center computes it,
\* is (dx, dy) away from the centre of the guide box
BoxAt(dx, dy, w, h) ==
  LET c == get_box_center(GUIDE_BOX_RECT)
      left == c[1] + dx - w \div 2
      top == c[2] + dy - h \div 2
  IN <<top, left + w, top + h, left>>

NoFace == Face(<<0, 0, 0, 0>>, 0)
NoFaceFrame == Frame(<< >>)

\* the frames of the interleaved specification: nobody, one of two persons
\* well placed (the box has exactly half the guide area), a person off centre
AppFrames ==
  { NoFaceFrame,
    Frame(<< Face(BoxAt(0, 0, 250, 315), 0) >>),
    Frame(<< Face(BoxAt(0, 0, 250, 315), 2) >>),
    Frame(<< Face(BoxAt(80, 0, 270, 350), 0) >>) }

\* the frames of the gate specification: one face at each offset and size,
\* around both thresholds, and frames with two faces
GateOffsets ==
  { <<0, 0>>, <<10, 0>>, <<30, 40>>, <<50, 0>>, <<51, 0>>, <<80, 0>>,
    <<-30, -40>>, <<36, 35>> }
GateSizes ==
  { <<250, 315>>, <<270, 350>>, <<210, 225>>, <<249, 316>>, <<251, 315>> }
GateFrames ==
  { Frame(<< Face(BoxAt(o[1], o[2], z[1], z[2]), 0) >>) :
      o \in GateOffsets, z \in GateSizes }
  \cup { NoFaceFrame,
         Frame(<< Face(BoxAt(80, 0, 210, 225), 0), Face(BoxAt(10, 0, 270, 350), 2) >>),
         Frame(<< Face(BoxAt(0, 0, 270, 350), 0), Face(BoxAt(80, 0, 270, 350), 2) >>) }

\* -------------------------------------------------------- the frame loop
Loops == {1}

AUTHENTICATING == "AUTHENTICATING"
REGISTRATION_SEARCHING == "REGISTRATION_SEARCHING"
REGISTRATION_FROZEN == "REGISTRATION_FROZEN"

Blank ==
  [handler |-> "none", face |-> NoFace, matched |-> FALSE, name |-> "",
   message |-> NoMessage]

\* what a cycle of a frame loop has done so far: the session it started in, the
\* calls of camera.get_frame and of the matcher, the backoff taken, the messages
\* of the frames it has yielded and the exception that ended it
NoHist ==
  [mode0 |-> AUTHENTICATING, captured0 |-> FALSE, pulls |-> 0, slept |-> FALSE,
   matcher_calls |-> 0, emitted |-> << >>, raised |-> "no"]

\* StreamProcessor._handle_authentication_frame: what it draws on the frame
HandleAuthentication(faces, encodings, ids, map) ==
  IF faces = << >>
    THEN [Blank EXCEPT !.handler = "auth"]
    ELSE LET face == largest_face(faces)
             m == FaceMetrics(face)
         IN IF AuthGate(m)
              THEN [handler |-> "auth", face |-> face, matched |-> TRUE,
                    name |-> authenticate_face(encodings, ids, map, face)[1].name,
                    message |-> "result"]
              ELSE [handler |-> "auth", face |-> face, matched |-> FALSE,
                    name |-> "", message |-> AuthFeedback(m)]

\* line 36: if self.app_state.mode == "REGISTRATION_FROZEN" and ...
G36(l) ==
  /\ loopPc[l] = "g36"
  /\ loopPc' = [loopPc EXCEPT ![l] =
                  IF mode = REGISTRATION_FROZEN THEN "g37" ELSE "g41"]
  /\ UNCHANGED <<sessVars, loopFrame, loopOut, loopStale, capturedStale>>
  /\ loopHist' = [loopHist EXCEPT ![l] =
                    [NoHist EXCEPT !.mode0 = mode,
                                   !.captured0 = (captured_frame # None)]]
  /\ UNCHANGED loopRest

\* line 37 answering "no frame": the cycle reads the camera
G37AlwaysCamera(l) ==
  /\ loopPc[l] = "g37"
  /\ loopPc' = [loopPc EXCEPT ![l] = "g41"]
  /\ UNCHANGED <<sessVars, loopFrame, loopOut, loopStale, capturedStale>>
  /\ UNCHANGED loopHist
  /\ UNCHANGED loopRest

\* line 37: ... and self.app_state.captured_frame is not None
G37(l) ==
  /\ loopPc[l] = "g37"
  /\ loopPc' = [loopPc EXCEPT ![l] =
                  IF captured_frame # None THEN "g39" ELSE "g41"]
  /\ UNCHANGED <<sessVars, loopFrame, loopOut, loopStale, capturedStale>>
  /\ UNCHANGED loopHist
  /\ UNCHANGED loopRest

\* line 39: frame = self.app_state.captured_frame.copy(); None has no copy()
G39(l) ==
  /\ loopPc[l] = "g39"
  /\ IF captured_frame = None
       THEN /\ loopPc' = [loopPc EXCEPT ![l] = "crashed"]
            /\ UNCHANGED <<loopFrame, loopStale>>
       ELSE /\ loopPc' = [loopPc EXCEPT ![l] = "g47"]
            /\ loopFrame' = [loopFrame EXCEPT ![l] = captured_frame]
            /\ loopStale' = [loopStale EXCEPT ![l] = capturedStale]
  /\ UNCHANGED <<sessVars, loopOut, capturedStale>>
  /\ UNCHANGED loopHist
  /\ UNCHANGED loopRest

\* lines 41-44: frame = self.camera.get_frame(); a miss sleeps and continues
G41(l, cam) ==
  /\ loopPc[l] = "g41"
  /\ \E f \in cam \cup {None} :
       IF f = None
         THEN /\ loopPc' = [loopPc EXCEPT ![l] = "g36"]
              /\ loopHist' = [loopHist EXCEPT ![l].pulls = @ + 1,
                                              ![l].slept = TRUE]
              /\ UNCHANGED <<loopFrame, loopStale>>
         ELSE /\ loopFrame' = [loopFrame EXCEPT ![l] = f]
              /\ loopStale' = [loopStale EXCEPT ![l] = FALSE]
              /\ loopPc' = [loopPc EXCEPT ![l] = "g47"]
              /\ loopHist' = [loopHist EXCEPT ![l].pulls = @ + 1]
  /\ UNCHANGED <<sessVars, loopOut, capturedStale>>
  /\ UNCHANGED loopRest

\* line 47: if self.app_state.mode == "AUTHENTICATING"
G47(l) ==
  /\ loopPc[l] = "g47"
  /\ loopPc' = [loopPc EXCEPT ![l] = IF mode = AUTHENTICATING THEN "a72" ELSE "g49"]
  /\ UNCHANGED <<sessVars, loopFrame, loopOut, loopStale, capturedStale>>
  /\ UNCHANGED loopHist
  /\ UNCHANGED loopRest

\* line 49: elif self.app_state.mode in [...]
G49(l) ==
  /\ loopPc[l] = "g49"
  /\ loopPc' = [loopPc EXCEPT ![l] =
                  IF mode \in {REGISTRATION_SEARCHING, REGISTRATION_FROZEN}
                    THEN "r129" ELSE "g56"]
  /\ UNCHANGED <<sessVars, loopFrame, loopOut, loopStale, capturedStale>>
  /\ UNCHANGED loopHist
  /\ UNCHANGED loopRest

\* lines 62-117: _handle_authentication_frame
A72(l) ==
  /\ loopPc[l] = "a72"
  /\ loopOut' = [loopOut EXCEPT ![l] =
                   HandleAuthentication(loopFrame[l].faces, known_encodings,
                                        known_user_ids, user_id_to_name_map)]
  /\ loopPc' = [loopPc EXCEPT ![l] = "g56"]
  /\ UNCHANGED <<sessVars, loopFrame, loopStale, capturedStale>>
  /\ loopHist' = [loopHist EXCEPT ![l].matcher_calls =
                                    IF loopOut'[l].matched THEN @ + 1 ELSE @]
  /\ UNCHANGED loopRest

\* lines 129-132: no face clears captured_frame
R129(l) ==
  /\ loopPc[l] = "r129"
  /\ IF loopFrame[l].faces = << >>
       THEN /\ captured_frame' = None
            /\ capturedStale' = FALSE
            /\ loopOut' = [loopOut EXCEPT ![l] = [Blank EXCEPT !.handler = "reg"]]
            /\ loopPc' = [loopPc EXCEPT ![l] = "g56"]
       ELSE /\ loopPc' = [loopPc EXCEPT ![l] = "r146"]
            /\ UNCHANGED <<captured_frame, capturedStale, loopOut>>
  /\ UNCHANGED <<mode, loopFrame, loopStale>>
  /\ UNCHANGED loopHist
  /\ UNCHANGED loopRest

\* lines 134-150: the largest face, its metrics, the auto-freeze condition
R146(l) ==
  /\ loopPc[l] = "r146"
  /\ loopPc' = [loopPc EXCEPT ![l] =
                  IF /\ mode = REGISTRATION_SEARCHING
                     /\ RegGate(FaceMetrics(largest_face(loopFrame[l].faces)))
                    THEN "r151" ELSE "r154"]
  /\ UNCHANGED <<sessVars, loopFrame, loopOut, loopStale, capturedStale>>
  /\ UNCHANGED loopHist
  /\ UNCHANGED loopRest

\* line 151 without the assignment: the mode stays as it was
R151KeepsMode(l) ==
  /\ loopPc[l] = "r151"
  /\ loopPc' = [loopPc EXCEPT ![l] = "r152"]
  /\ UNCHANGED <<sessVars, loopFrame, loopOut, loopStale, capturedStale>>
  /\ UNCHANGED loopHist
  /\ UNCHANGED loopRest

\* line 151: self.app_state.mode = "REGISTRATION_FROZEN"
R151(l) ==
  /\ loopPc[l] = "r151"
  /\ mode' = REGISTRATION_FROZEN
  /\ loopPc' = [loopPc EXCEPT ![l] = "r152"]
  /\ UNCHANGED <<captured_frame, loopFrame, loopOut, loopStale, capturedStale>>
  /\ UNCHANGED loopHist
  /\ UNCHANGED loopRest

\* line 152 without the assignment: the earlier captured frame is kept
R152KeepsEarlier(l) ==
  /\ loopPc[l] = "r152"
  /\ loopPc' = [loopPc EXCEPT ![l] = "r154"]
  /\ UNCHANGED <<sessVars, loopFrame, loopOut, loopStale, capturedStale>>
  /\ UNCHANGED loopHist
  /\ UNCHANGED loopRest

\* line 152: self.app_state.captured_frame = frame.copy()
R152(l) ==
  /\ loopPc[l] = "r152"
  /\ captured_frame' = loopFrame[l]
  /\ capturedStale' = loopStale[l]
  /\ loopPc' = [loopPc EXCEPT ![l] = "r154"]
  /\ UNCHANGED <<mode, loopFrame, loopOut, loopStale>>
  /\ UNCHANGED loopHist
  /\ UNCHANGED loopRest

\* lines 154-167: the message, by the mode read again
R154(l) ==
  /\ loopPc[l] = "r154"
  /\ LET face == largest_face(loopFrame[l].faces) IN
       loopOut' = [loopOut EXCEPT ![l] =
                     [handler |-> "reg", face |-> face, matched |-> FALSE, name |-> "",
                      message |-> IF mode = REGISTRATION_FROZEN THEN WillEnroll
                                  ELSE RegFeedback(FaceMetrics(face))]]
  /\ loopPc' = [loopPc EXCEPT ![l] = "g56"]
  /\ UNCHANGED <<sessVars, loopFrame, loopStale, capturedStale>>
  /\ UNCHANGED loopHist
  /\ UNCHANGED loopRest

\* lines 56-60: the frame is encoded and yielded
G56(l) ==
  /\ loopPc[l] = "g56"
  /\ loopPc' = [loopPc EXCEPT ![l] = "g36"]
  /\ loopFrame' = [loopFrame EXCEPT ![l] = None]
  /\ loopOut' = [loopOut EXCEPT ![l] = Blank]
  /\ loopStale' = [loopStale EXCEPT ![l] = FALSE]
  /\ UNCHANGED <<sessVars, capturedStale>>
  /\ loopHist' = [loopHist EXCEPT ![l].emitted = Append(@, loopOut[l].message)]
  /\ UNCHANGED loopRest

\* ------------------------------------ test_app.py generate_frames, by line
\* line 157: if (app_state.mode == "REGISTRATION_FROZEN") and ...
T157(l) ==
  /\ loopPc[l] = "t157"
  /\ loopPc' = [loopPc EXCEPT ![l] =
                  IF mode = REGISTRATION_FROZEN THEN "t158" ELSE "t162"]
  /\ loopHist' = [loopHist EXCEPT ![l] =
                    [NoHist EXCEPT !.mode0 = mode,
                                   !.captured0 = (captured_frame # None)]]
  /\ UNCHANGED <<sessVars, loopFrame, loopOut, loopStale, capturedStale>>
  /\ UNCHANGED loopRest

\* line 158: ... (app_state.captured_frame is not None)
T158(l) ==
  /\ loopPc[l] = "t158"
  /\ loopPc' = [loopPc EXCEPT ![l] =
                  IF captured_frame # None THEN "t160" ELSE "t162"]
  /\ UNCHANGED <<sessVars, loopFrame, loopOut, loopStale, capturedStale, loopHist>>
  /\ UNCHANGED loopRest

\* line 160: frame = app_state.captured_frame.copy(); None has no copy()
T160(l) ==
  /\ loopPc[l] = "t160"
  /\ IF captured_frame = None
       THEN /\ loopPc' = [loopPc EXCEPT ![l] = "t_ended"]
            /\ loopHist' = [loopHist EXCEPT ![l].raised = "AttributeError"]
            /\ UNCHANGED <<loopFrame, loopStale>>
       ELSE /\ loopPc' = [loopPc EXCEPT ![l] = "t169"]
            /\ loopFrame' = [loopFrame EXCEPT ![l] = captured_frame]
            /\ loopStale' = [loopStale EXCEPT ![l] = capturedStale]
            /\ UNCHANGED loopHist
  /\ UNCHANGED <<sessVars, loopOut, capturedStale>>
  /\ UNCHANGED loopRest

\* lines 162-167: frame = camera.get_frame(); a miss is logged, sleeps 0.1 s
\* and continues
T162(l, cam) ==
  /\ loopPc[l] = "t162"
  /\ \E f \in cam \cup {None} :
       IF f = None
         THEN /\ loopPc' = [loopPc EXCEPT ![l] = "t157"]
              /\ loopHist' = [loopHist EXCEPT ![l].pulls = @ + 1,
                                              ![l].slept = TRUE]
              /\ UNCHANGED <<loopFrame, loopStale>>
         ELSE /\ loopFrame' = [loopFrame EXCEPT ![l] = f]
              /\ loopStale' = [loopStale EXCEPT ![l] = FALSE]
              /\ loopPc' = [loopPc EXCEPT ![l] = "t169"]
              /\ loopHist' = [loopHist EXCEPT ![l].pulls = @ + 1]
  /\ UNCHANGED <<sessVars, loopOut, capturedStale>>
  /\ UNCHANGED loopRest

\* line 169: if app_state.mode == "AUTHENTICATING"
T169(l) ==
  /\ loopPc[l] = "t169"
  /\ loopPc' = [loopPc EXCEPT ![l] = IF mode = AUTHENTICATING THEN "t171" ELSE "t173"]
  /\ UNCHANGED <<sessVars, loopFrame, loopOut, loopStale, capturedStale, loopHist>>
  /\ UNCHANGED loopRest

\* line 171: handle_authentication_frame(frame).  The function contains yield
\* (lines 228, 260), so the call only builds a generator object that is dropped:
\* nothing of its body runs, neither the detection nor the matcher.
T171(l) ==
  /\ loopPc[l] = "t171"
  /\ loopOut' = [loopOut EXCEPT ![l] = [Blank EXCEPT !.handler = "auth"]]
  /\ loopPc' = [loopPc EXCEPT ![l] = "t177"]
  /\ UNCHANGED <<sessVars, loopFrame, loopStale, capturedStale, loopHist>>
  /\ UNCHANGED loopRest

\* line 173: elif app_state.mode in [...]
T173(l) ==
  /\ loopPc[l] = "t173"
  /\ loopPc' = [loopPc EXCEPT ![l] =
                  IF mode \in {REGISTRATION_SEARCHING, REGISTRATION_FROZEN}
                    THEN "t289" ELSE "t177"]
  /\ UNCHANGED <<sessVars, loopFrame, loopOut, loopStale, capturedStale, loopHist>>
  /\ UNCHANGED loopRest

\* handle_registration_frame, lines 289-292: no face clears captured_frame
T289(l) ==
  /\ loopPc[l] = "t289"
  /\ IF loopFrame[l].faces = << >>
       THEN /\ captured_frame' = None
            /\ capturedStale' = FALSE
            /\ loopOut' = [loopOut EXCEPT ![l] = [Blank EXCEPT !.handler = "reg"]]
            /\ loopPc' = [loopPc EXCEPT ![l] = "t177"]
       ELSE /\ loopPc' = [loopPc EXCEPT ![l] = "t302"]
            /\ UNCHANGED <<captured_frame, capturedStale, loopOut>>
  /\ UNCHANGED <<mode, loopFrame, loopStale, loopHist>>
  /\ UNCHANGED loopRest

\* lines 294-306: the largest face, its metrics, the auto-freeze condition
T302(l) ==
  /\ loopPc[l] = "t302"
  /\ loopPc' = [loopPc EXCEPT ![l] =
                  IF /\ mode = REGISTRATION_SEARCHING
                     /\ RegGate(FaceMetrics(largest_face(loopFrame[l].faces)))
                    THEN "t307" ELSE "t311"]
  /\ UNCHANGED <<sessVars, loopFrame, loopOut, loopStale, capturedStale, loopHist>>
  /\ UNCHANGED loopRest

\* line 307: app_state.mode = "REGISTRATION_FROZEN"
T307(l) ==
  /\ loopPc[l] = "t307"
  /\ mode' = REGISTRATION_FROZEN
  /\ loopPc' = [loopPc EXCEPT ![l] = "t308"]
  /\ UNCHANGED <<captured_frame, loopFrame, loopOut, loopStale, capturedStale, loopHist>>
  /\ UNCHANGED loopRest

\* line 308: app_state.captured_frame = frame.copy()
T308(l) ==
  /\ loopPc[l] = "t308"
  /\ captured_frame' = loopFrame[l]
  /\ capturedStale' = loopStale[l]
  /\ loopPc' = [loopPc EXCEPT ![l] = "t311"]
  /\ UNCHANGED <<mode, loopFrame, loopOut, loopStale, loopHist>>
  /\ UNCHANGED loopRest

\* lines 311-320: the message, by the mode read again
T311(l) ==
  /\ loopPc[l] = "t311"
  /\ LET face == largest_face(loopFrame[l].faces) IN
       loopOut' = [loopOut EXCEPT ![l] =
                     [handler |-> "reg", face |-> face, matched |-> FALSE, name |-> "",
                      message |-> IF mode = REGISTRATION_FROZEN THEN WillEnroll
                                  ELSE RegFeedback(FaceMetrics(face))]]
  /\ loopPc' = [loopPc EXCEPT ![l] = "t321"]
  /\ UNCHANGED <<sessVars, loopFrame, loopStale, capturedStale, loopHist>>
  /\ UNCHANGED loopRest

\* line 321: draw_japanese_text(frame, feedback_message, (left, top - 40),
\* guide_color) passes four of the six positional arguments of the function
\* (line 121), so the call raises TypeError and the generator ends
T321(l) ==
  /\ loopPc[l] = "t321"
  /\ loopPc' = [loopPc EXCEPT ![l] = "t_ended"]
  /\ loopHist' = [loopHist EXCEPT ![l].raised = "TypeError"]
  /\ UNCHANGED <<sessVars, loopFrame, loopOut, loopStale, capturedStale>>
  /\ UNCHANGED loopRest

\* lines 177-181: the frame is encoded and yielded
T177(l) ==
  /\ loopPc[l] = "t177"
  /\ loopPc' = [loopPc EXCEPT ![l] = "t157"]
  /\ loopFrame' = [loopFrame EXCEPT ![l] = None]
  /\ loopOut' = [loopOut EXCEPT ![l] = Blank]
  /\ loopStale' = [loopStale EXCEPT ![l] = FALSE]
  /\ loopHist' = [loopHist EXCEPT ![l].emitted = Append(@, loopOut[l].message)]
  /\ UNCHANGED <<sessVars, capturedStale>>
  /\ UNCHANGED loopRest

\* video_feed, lines 330-334: a new request calls generate_frames() again, so a
\* new generator takes the place of the one an exception has ended
VideoFeed(l) ==
  /\ loopPc[l] = "t_ended"
  /\ loopPc' = [loopPc EXCEPT ![l] = "t157"]
  /\ loopFrame' = [loopFrame EXCEPT ![l] = None]
  /\ loopOut' = [loopOut EXCEPT ![l] = Blank]
  /\ loopStale' = [loopStale EXCEPT ![l] = FALSE]
  /\ loopHist' = [loopHist EXCEPT ![l] = NoHist]
  /\ UNCHANGED <<sessVars, capturedStale>>
  /\ UNCHANGED loopRest

\* ------------------------------------------------ the command handlers
NoStale == [l \in Loops |-> FALSE]

\* a request arrives for start_registration, recapture or cancel_registration
CmdBegin ==
  /\ cmdPc = "idle"
  /\ cmdPc' \in {"start349", "recap357", "cancel366"}
  /\ cmdName' = ""
  /\ cmdMode' = mode
  /\ UNCHANGED passwordOk
  /\ response' = "none"
  /\ lastCmd' = "none"
  /\ loopStale' = NoStale
  /\ capturedStale' = FALSE
  /\ UNCHANGED <<sessVars, diskVars, loopPc, loopFrame, loopOut, loopHist>>
  /\ UNCHANGED cmdRest

\* a request arrives for submit_registration, with the name of its form
SubmitBegin ==
  /\ cmdPc = "idle"
  /\ uuid_count < MaxUsers
  /\ cmdPc' = "submit387"
  /\ cmdName' \in Names \cup {""}
  /\ cmdMode' = mode
  /\ UNCHANGED passwordOk
  /\ response' = "none"
  /\ lastCmd' = "none"
  /\ loopStale' = NoStale
  /\ capturedStale' = FALSE
  /\ UNCHANGED <<sessVars, diskVars, loopPc, loopFrame, loopOut, loopHist>>
  /\ UNCHANGED cmdRest

\* start_registration, line 349
Start349 ==
  /\ cmdPc = "start349"
  /\ mode' = REGISTRATION_SEARCHING
  /\ cmdPc' = "idle"
  /\ response' = "ok"
  /\ lastCmd' = "start"
  /\ UNCHANGED <<captured_frame, diskVars, loopVars, cmdName, cmdHist>>
  /\ UNCHANGED cmdRest

\* recapture, line 357
Recap357 ==
  /\ cmdPc = "recap357"
  /\ mode' = REGISTRATION_SEARCHING
  /\ cmdPc' = "recap358"
  /\ UNCHANGED <<captured_frame, diskVars, loopVars, cmdName, cmdHist, response, lastCmd>>
  /\ UNCHANGED cmdRest

\* recapture, lines 358-360; from here on the frames the loops hold are old
Recap358NoClear ==
  /\ cmdPc = "recap358"
  /\ captured_frame' = captured_frame
  /\ cmdPc' = "idle"
  /\ response' = "ok"
  /\ lastCmd' = "recapture"
  /\ loopStale' = [l \in Loops |-> loopFrame[l] # None]
  /\ capturedStale' = FALSE
  /\ UNCHANGED <<mode, diskVars, loopPc, loopFrame, loopOut, loopHist, cmdName, cmdHist>>
  /\ UNCHANGED cmdRest

Recap358 ==
  /\ cmdPc = "recap358"
  /\ captured_frame' = None
  /\ cmdPc' = "idle"
  /\ response' = "ok"
  /\ lastCmd' = "recapture"
  /\ loopStale' = [l \in Loops |-> loopFrame[l] # None]
  /\ capturedStale' = FALSE
  /\ UNCHANGED <<mode, diskVars, loopPc, loopFrame, loopOut, loopHist, cmdName, cmdHist>>
  /\ UNCHANGED cmdRest

\* cancel_registration, line 366
Cancel366ToSearching ==
  /\ cmdPc = "cancel366"
  /\ mode' = REGISTRATION_SEARCHING
  /\ cmdPc' = "cancel367"
  /\ UNCHANGED <<captured_frame, diskVars, loopVars, cmdName, cmdHist, response, lastCmd>>
  /\ UNCHANGED cmdRest

Cancel366 ==
  /\ cmdPc = "cancel366"
  /\ mode' = AUTHENTICATING
  /\ cmdPc' = "cancel367"
  /\ UNCHANGED <<captured_frame, diskVars, loopVars, cmdName, cmdHist, response, lastCmd>>
  /\ UNCHANGED cmdRest

\* cancel_registration, lines 367-369
Cancel367 ==
  /\ cmdPc = "cancel367"
  /\ captured_frame' = None
  /\ capturedStale' = FALSE
  /\ cmdPc' = "idle"
  /\ response' = "ok"
  /\ lastCmd' = "cancel"
  /\ UNCHANGED <<mode, diskVars, loopPc, loopFrame, loopOut, loopHist, loopStale, cmdName, cmdHist>>
  /\ UNCHANGED cmdRest

\* FaceProcessor.detect_and_encode_faces raises (cv2.cvtColor, face_recognition):
\* neither it nor the handlers that call it (stream_processor.py:72 and 129,
\* test_app.py:289) catch anything, so the exception ends the generator
DetectFails(l) ==
  /\ loopPc[l] \in {"a72", "r129", "t289"}
  /\ loopPc' = [loopPc EXCEPT ![l] =
                  IF loopPc[l] = "t289" THEN "t_ended" ELSE "crashed"]
  /\ loopHist' = [loopHist EXCEPT ![l].raised = "detector"]
  /\ UNCHANGED <<sessVars, loopFrame, loopOut, loopStale, capturedStale>>
  /\ UNCHANGED loopRest

REGISTRATION_PASSWORD == "704lIlac"

\* a request arrives for check_password, with the password of its form
CheckBegin ==
  /\ cmdPc = "idle"
  /\ cmdPc' = "check340"
  /\ cmdName' \in {REGISTRATION_PASSWORD, "guess"}
  /\ cmdMode' = mode
  /\ UNCHANGED passwordOk
  /\ response' = "none"
  /\ lastCmd' = "none"
  /\ loopStale' = NoStale
  /\ capturedStale' = FALSE
  /\ UNCHANGED <<sessVars, diskVars, loopPc, loopFrame, loopOut, loopHist>>
  /\ UNCHANGED cmdRest

\* check_password, lines 340-343: the answer is all the handler produces
Check340 ==
  /\ cmdPc = "check340"
  /\ cmdPc' = "idle"
  /\ IF cmdName = REGISTRATION_PASSWORD
       THEN /\ response' = "ok"
            /\ lastCmd' = "check_password"
            /\ passwordOk' = TRUE
       ELSE /\ response' = "error"
            /\ lastCmd' = "check_password_refused"
            /\ UNCHANGED passwordOk
  /\ UNCHANGED <<sessVars, diskVars, loopVars, cmdName, cmdMode>>
  /\ UNCHANGED cmdRest

\* status: what GET /status reports
status == [mode |-> mode, isFrameCaptured |-> captured_frame # None]

\* submit_registration, line 387: the request is refused
SubmitRefusedBoth(name, frame) == name = "" /\ frame = None

SubmitRefused(name, frame) == name = "" \/ frame = None

\* submit_registration, lines 386-396
Submit387 ==
  /\ cmdPc = "submit387"
  /\ IF SubmitRefused(cmdName, captured_frame)
       THEN /\ cmdPc' = "idle"
            /\ response' = "error"
            /\ lastCmd' = "submit_refused"
       ELSE /\ cmdPc' = "submit398"
            /\ UNCHANGED <<response, lastCmd>>
  /\ UNCHANGED <<sessVars, diskVars, loopVars, cmdName, cmdHist>>
  /\ UNCHANGED cmdRest

\* submit_registration, lines 398-400: register_new_user with the frame that
\* captured_frame holds now; an exception ends the request
Submit398 ==
  /\ cmdPc = "submit398"
  /\ LET r == register_new_user(cmdName, <<captured_frame>>, metadata, dataset,
                                uuid_count)
     IN /\ metadata' = r.metadata
        /\ dataset' = r.dataset
        /\ uuid_count' = r.uuid_count
        /\ IF r.outcome = "ok"
             THEN /\ cmdPc' = "submit401"
                  /\ UNCHANGED <<response, lastCmd>>
             ELSE /\ cmdPc' = "idle"
                  /\ response' = "exception"
                  /\ lastCmd' = "submit_failed"
  /\ UNCHANGED <<sessVars, encodings_file, loopVars, cmdName, cmdHist>>
  /\ UNCHANGED cmdRest

\* submit_registration, line 401
Submit401 ==
  /\ cmdPc = "submit401"
  /\ encodings_file' = build_encodings_from_dataset(metadata, dataset, encodings_file)
  /\ cmdPc' = "submit402"
  /\ UNCHANGED <<sessVars, metadata, dataset, uuid_count, loopVars, cmdName, cmdHist,
                 response, lastCmd>>
  /\ UNCHANGED cmdRest

\* submit_registration, line 402: AuthenticationService has no attribute
\* reload_knowledge, so the call raises AttributeError and the request ends
\* there; line 404 (cancel_registration) is not reached
Submit402 ==
  /\ cmdPc = "submit402"
  /\ cmdPc' = "idle"
  /\ response' = "exception"
  /\ lastCmd' = "submit"
  /\ UNCHANGED <<sessVars, diskVars, loopVars, cmdName, cmdHist>>
  /\ UNCHANGED cmdRest

\* ------------------------------------------------ app.py generate_frames
MaxHold == 2   \* frames emitted while a result is held

NoCycle == [frame |-> None, face |-> NoFace, matched |-> FALSE, name |-> "",
            emitted |-> << >>, pulls |-> 0, slept |-> FALSE]

\* one cycle of the loop of app.py, which has no session state: the frames it
\* emits for the frame f of the camera, the result being held for k frames
AppCycle(f, k, encodings, ids, map) ==
  IF f = None THEN [NoCycle EXCEPT !.pulls = 1]
  ELSE IF f.faces = << >>
    THEN [NoCycle EXCEPT !.frame = f, !.emitted = <<NoMessage>>, !.pulls = 1]
  ELSE LET face == largest_face(f.faces)
           m == FaceMetrics(face)
       IN IF AppGate(m)
            THEN [frame |-> f, face |-> face, matched |-> TRUE,
                  name |-> authenticate_face(encodings, ids, map, face)[1].name,
                  emitted |-> <<Authenticating>> \o [i \in 1..k |-> "result"],
                  pulls |-> 1, slept |-> FALSE]
            ELSE [frame |-> f, face |-> face, matched |-> FALSE, name |-> "",
                  emitted |-> <<AppFeedback(m)>>, pulls |-> 1, slept |-> FALSE]

AppGenerateFrames(cam) ==
  /\ program = "app.py"
  /\ UNCHANGED program
  /\ \E f \in cam \cup {None}, k \in 1..MaxHold :
       app_cycle' = AppCycle(f, k, known_encodings, known_user_ids,
                             user_id_to_name_map)
  /\ UNCHANGED <<svcVars, callVars, diskVars, loadVars, matchVars, sessVars,
                 loopVars, cmdVars, regVars>>

\* ---------------------------------------------------- the initial states
NoCall == [op |-> "none"]

DiskEmpty ==
  /\ metadata = << >>
  /\ dataset = NoImages
  /\ encodings_file = NoEncodingsFile
  /\ uuid_count = 0

CallIdle == call = NoCall /\ result = << >>

SessionInit == mode = AUTHENTICATING /\ captured_frame = None

LoopTops == {"g36", "t157"}

\* every generator at the top of its loop: "g36" is StreamProcessor.generate,
\* "t157" is generate_frames of test_app.py
LoopInitAt(tops) ==
  /\ loopPc \in [Loops -> tops]
  /\ loopFrame = [l \in Loops |-> None]
  /\ loopOut = [l \in Loops |-> Blank]
  /\ loopStale = NoStale
  /\ capturedStale = FALSE
  /\ loopHist = [l \in Loops |-> NoHist]

LoopInit == LoopInitAt({"g36"})

CmdIdle ==
  /\ cmdPc = "idle"
  /\ cmdName = ""
  /\ response = "none"
  /\ lastCmd = "none"
  /\ cmdMode = AUTHENTICATING
  /\ passwordOk = FALSE

\* nobody is inside register_new_user
Regs == {1, 2}

NoReg == [name |-> "", image |-> None, user_id |-> 0, metadata |-> << >>,
          outcome |-> "none"]

RegIdle ==
  /\ regPc = [r \in Regs |-> "idle"]
  /\ regLocal = [r \in Regs |-> NoReg]
  /\ metadata_torn = FALSE

\* everything but the three structures of the matcher is at rest
RestIdle ==
  /\ DiskEmpty
  /\ RegIdle
  /\ constructed = TRUE
  /\ LoadIdle
  /\ MatchIdle
  /\ SessionInit
  /\ LoopInit
  /\ CmdIdle
  /\ program = "test_app.py"
  /\ app_cycle = NoCycle

\* --------------------------------------------- specification of the matcher
GalleryEntries == Embeddings \X UserIds

SeqsUpTo(S, n) == UNION {[1..k -> S] : k \in 0..n}

\* the name maps of InitMatcher: any subset of the users, each under a fixed name
NameOf(u) == IF u % 2 = 1 THEN "Alice" ELSE "Bob"

NameMaps == {[u \in D |-> NameOf(u)] : D \in SUBSET UserIds}

MatcherFaces ==
  {[location |-> l, encoding |-> e] : l \in ProbeLocations, e \in Embeddings}

InitMatcher ==
  /\ \E g \in SeqsUpTo(GalleryEntries, MaxGallery) :
       /\ known_encodings = [i \in 1..Len(g) |-> g[i][1]]
       /\ known_user_ids = [i \in 1..Len(g) |-> g[i][2]]
  /\ user_id_to_name_map \in NameMaps
  /\ CallIdle
  /\ RestIdle

\* one call per behaviour: the gallery is drawn by InitMatcher, the argument here
CallAuthenticateFace ==
  \E face_data \in MatcherFaces :
    /\ call = NoCall
    /\ call' = [op |-> "authenticate_face", face |-> face_data]
    /\ result' = authenticate_face(known_encodings, known_user_ids,
                                   user_id_to_name_map, face_data)
    /\ UNCHANGED <<svcVars, diskVars, loadVars, matchVars, sessVars, loopVars,
                   cmdVars, appVars, regVars>>

CallAuthenticateFrame ==
  \E faces \in SeqsUpTo(MatcherFaces, MaxFaces) :
    /\ call = NoCall
    /\ call' = [op |-> "authenticate_frame", faces |-> faces]
    /\ result' = authenticate_frame(known_encodings, known_user_ids,
                                    user_id_to_name_map, faces)
    /\ UNCHANGED <<svcVars, diskVars, loadVars, matchVars, sessVars, loopVars,
                   cmdVars, appVars, regVars>>

\* authenticate_face alone
NextMatcher == CallAuthenticateFace

SpecMatcher == InitMatcher /\ [][NextMatcher]_vars

\* both entry points of the matcher
NextFrameMatcher == CallAuthenticateFace \/ CallAuthenticateFrame

SpecFrameMatcher == InitMatcher /\ [][NextFrameMatcher]_vars

\* ------------------------- specification of the gallery load and the matcher
\* the images another process (run_register.py) enrols: one face each
GalleryImages == { Frame(<< Face(BoxAt(0, 0, 250, 315), e) >>) : e \in {0, 2} }

InitGallery ==
  /\ known_encodings = << >>
  /\ known_user_ids = << >>
  /\ user_id_to_name_map = << >>
  /\ CallIdle
  /\ DiskEmpty
  /\ RegIdle
  /\ constructed = FALSE
  /\ LoadIdle
  /\ MatchIdle
  /\ SessionInit
  /\ LoopInit
  /\ CmdIdle
  /\ program = "test_app.py"
  /\ app_cycle = NoCycle

\* RegistrationService.register_new_user, called with one image
GalleryRegister ==
  /\ uuid_count < MaxUsers
  /\ \E name \in Names, image \in GalleryImages :
       LET r == register_new_user(name, <<image>>, metadata, dataset, uuid_count)
       IN /\ metadata' = r.metadata
          /\ dataset' = r.dataset
          /\ uuid_count' = r.uuid_count
  /\ UNCHANGED <<encodings_file, svcVars, callVars, loadVars, matchVars, sessVars,
                 loopVars, cmdVars, appVars, regVars>>

\* EncodingService.build_encodings_from_dataset
GalleryBuild ==
  /\ encodings_file' = build_encodings_from_dataset(metadata, dataset, encodings_file)
  /\ UNCHANGED <<metadata, dataset, uuid_count, svcVars, callVars, loadVars,
                 matchVars, sessVars, loopVars, cmdVars, appVars, regVars>>

NextGallery ==
  \/ GalleryRegister \/ GalleryBuild
  \/ LoadBegin \/ Load195 \/ Load196 \/ Load204
  \/ MatchBegin \/ Match229 \/ Match232 \/ Match233

SpecGallery == InitGallery /\ [][NextGallery]_vars

\* ------------------------------------------- specifications of the kiosk
\* the disk the kiosk starts on: empty, or with one user enrolled and encoded
EnrolledDisk ==
  LET r == register_new_user("Alice", << Frame(<< Face(BoxAt(0, 0, 250, 315), 0) >>) >>,
                             << >>, NoImages, 0)
  IN [metadata |-> r.metadata, dataset |-> r.dataset, uuid_count |-> r.uuid_count,
      encodings_file |->
        build_encodings_from_dataset(r.metadata, r.dataset, NoEncodingsFile)]

InitialDisks ==
  { [metadata |-> << >>, dataset |-> NoImages, uuid_count |-> 0,
     encodings_file |-> NoEncodingsFile],
    EnrolledDisk }

\* the state after the module is imported: AppState(), the services
\* constructed on the disk as it is
InitKioskAt(programs, tops) ==
  /\ program \in programs
  /\ \E d \in InitialDisks :
       /\ metadata = d.metadata
       /\ dataset = d.dataset
       /\ uuid_count = d.uuid_count
       /\ encodings_file = d.encodings_file
       /\ LET svc == LoadedService(d.metadata, d.encodings_file) IN
            /\ known_encodings = svc.known_encodings
            /\ known_user_ids = svc.known_user_ids
            /\ user_id_to_name_map = svc.user_id_to_name_map
  /\ CallIdle
  /\ RegIdle
  /\ constructed = TRUE
  /\ LoadIdle
  /\ MatchIdle
  /\ SessionInit
  /\ LoopInitAt(tops)
  /\ CmdIdle
  /\ app_cycle = NoCycle

InitKiosk(programs) == InitKioskAt(programs, {"g36"})

\* the frame loop and the command handlers, every interleaving of their lines
NextApp ==
  \/ \E l \in Loops :
       \/ G36(l) \/ G37(l) \/ G39(l) \/ G41(l, AppFrames) \/ G47(l) \/ G49(l)
       \/ A72(l) \/ R129(l) \/ R146(l) \/ R151(l) \/ R152(l) \/ R154(l) \/ G56(l)
  \/ CmdBegin \/ Start349 \/ Recap357 \/ Recap358 \/ Cancel366 \/ Cancel367
  \/ SubmitBegin \/ Submit387 \/ Submit398 \/ Submit401 \/ Submit402

InitApp == InitKiosk({"test_app.py"})

SpecApp == InitApp /\ [][NextApp]_vars

\* the frame loops and the session commands one after the other (no command
\* runs during a cycle), on the frames around the thresholds of the gate
AllLoopsAtTop == \A l \in Loops : loopPc[l] \in LoopTops \cup {"crashed", "t_ended"}

LoopTurn == program = "test_app.py" /\ cmdPc = "idle"
CmdTurn == program = "test_app.py" /\ AllLoopsAtTop

NextGate ==
  \/ \E l \in Loops :
       \/ LoopTurn /\ G36(l)
       \/ LoopTurn /\ G37(l)
       \/ LoopTurn /\ G39(l)
       \/ LoopTurn /\ G41(l, GateFrames)
       \/ LoopTurn /\ G47(l)
       \/ LoopTurn /\ G49(l)
       \/ LoopTurn /\ A72(l)
       \/ LoopTurn /\ R129(l)
       \/ LoopTurn /\ R146(l)
       \/ LoopTurn /\ R151(l)
       \/ LoopTurn /\ R152(l)
       \/ LoopTurn /\ R154(l)
       \/ LoopTurn /\ G56(l)
       \/ LoopTurn /\ T157(l)
       \/ LoopTurn /\ T158(l)
       \/ LoopTurn /\ T160(l)
       \/ LoopTurn /\ T162(l, GateFrames)
       \/ LoopTurn /\ T169(l)
       \/ LoopTurn /\ T171(l)
       \/ LoopTurn /\ T173(l)
       \/ LoopTurn /\ T289(l)
       \/ LoopTurn /\ T302(l)
       \/ LoopTurn /\ T307(l)
       \/ LoopTurn /\ T308(l)
       \/ LoopTurn /\ T311(l)
       \/ LoopTurn /\ T321(l)
       \/ LoopTurn /\ T177(l)
       \/ LoopTurn /\ DetectFails(l)
       \/ LoopTurn /\ VideoFeed(l)
  \/ CmdTurn /\ CmdBegin
  \/ CmdTurn /\ Start349
  \/ CmdTurn /\ Recap357
  \/ CmdTurn /\ Recap358
  \/ CmdTurn /\ Cancel366
  \/ CmdTurn /\ Cancel367
  \/ CmdTurn /\ CheckBegin
  \/ CmdTurn /\ Check340
  \/ AppGenerateFrames(GateFrames)

InitGate ==
  /\ InitKioskAt({"app.py", "test_app.py"}, LoopTops)
  /\ program = "app.py" => loopPc = [l \in Loops |-> "g36"]

SpecGate == InitGate /\ [][NextGate]_vars

\* --------------------- RegistrationService.register_new_user, by line
\* what a step of register_new_user leaves alone
regRest == <<svcVars, callVars, loadVars, matchVars, sessVars, loopVars, cmdVars,
             appVars, encodings_file>>

\* lines 48-54: the arguments are checked and the uuid is generated
Reg48(r) ==
  /\ regPc[r] = "idle"
  /\ uuid_count < MaxUsers
  /\ \E name \in Names \cup {""}, image \in GalleryImages :
       IF name = ""
         THEN /\ regLocal' = [regLocal EXCEPT ![r] =
                                [NoReg EXCEPT !.outcome = "ValueError"]]
              /\ UNCHANGED <<regPc, uuid_count>>
         ELSE /\ regLocal' = [regLocal EXCEPT ![r] =
                                [NoReg EXCEPT !.name = name, !.image = image,
                                              !.user_id = uuid_count + 1]]
              /\ uuid_count' = uuid_count + 1
              /\ regPc' = [regPc EXCEPT ![r] = "r57"]
  /\ UNCHANGED <<metadata, dataset, metadata_torn>>
  /\ UNCHANGED regRest

\* DataManager.read_metadata, lines 67-78: json.load of the file, and [] when
\* the file cannot be read or parsed
ReadMetadataFile(md, torn) == IF torn THEN << >> ELSE read_metadata(md)

\* lines 57-63: metadata = read_metadata(); metadata.append(new_user_data)
Reg57(r) ==
  /\ regPc[r] = "r57"
  /\ regLocal' = [regLocal EXCEPT ![r].metadata =
                    Append(ReadMetadataFile(metadata, metadata_torn),
                           [user_id |-> regLocal[r].user_id,
                            name |-> regLocal[r].name])]
  /\ regPc' = [regPc EXCEPT ![r] = "w88"]
  /\ UNCHANGED <<diskVars, metadata_torn>>
  /\ UNCHANGED regRest

\* line 66, DataManager.write_metadata line 88: open(path, "w") truncates the
\* file
Write88(r) ==
  /\ regPc[r] = "w88"
  /\ metadata_torn' = TRUE
  /\ regPc' = [regPc EXCEPT ![r] = "w89"]
  /\ UNCHANGED <<diskVars, regLocal>>
  /\ UNCHANGED regRest

\* DataManager.write_metadata line 89: json.dump(data, f) and the file is
\* closed; the file is complete again unless another writer still has it open
Write89(r) ==
  /\ regPc[r] = "w89"
  /\ metadata' = regLocal[r].metadata
  /\ metadata_torn' = (\E q \in Regs \ {r} : regPc[q] = "w89")
  /\ regPc' = [regPc EXCEPT ![r] = "r70"]
  /\ UNCHANGED <<dataset, encodings_file, uuid_count, regLocal>>
  /\ UNCHANGED regRest

\* line 70: save_images_for_user(user_id, images), and the call returns
Reg70(r) ==
  /\ regPc[r] = "r70"
  /\ dataset' = [dataset EXCEPT ![regLocal[r].user_id] =
                   SavedImages(<< regLocal[r].image >>)]
  /\ regLocal' = [regLocal EXCEPT ![r].outcome = "ok"]
  /\ regPc' = [regPc EXCEPT ![r] = "idle"]
  /\ UNCHANGED <<metadata, uuid_count, metadata_torn>>
  /\ UNCHANGED regRest

\* two callers of register_new_user (two submit_registration requests, or one
\* and run_register.py) on the disk the kiosk starts on
InitRegister == InitKiosk({"test_app.py"})

NextRegister ==
  \E r \in Regs :
    \/ Reg48(r) \/ Reg57(r) \/ Write88(r) \/ Write89(r) \/ Reg70(r)

SpecRegister == InitRegister /\ [][NextRegister]_vars

\* ------------------------- register_new_user on a disk whose writes can fail
\* line 66, DataManager.write_metadata lines 87-97: open(path, "w") raises, the
\* except clause logs the error and returns, and register_new_user goes on to
\* line 70; the file is as it was
Write88Fails(r) ==
  /\ regPc[r] = "w88"
  /\ regPc' = [regPc EXCEPT ![r] = "r70"]
  /\ UNCHANGED <<diskVars, metadata_torn, regLocal>>
  /\ UNCHANGED regRest

\* line 70, DataManager.save_images_for_user lines 110-111: os.makedirs raises,
\* nothing catches it and the exception leaves register_new_user; no image is
\* written
Save111Fails(r) ==
  /\ regPc[r] = "r70"
  /\ regLocal' = [regLocal EXCEPT ![r].outcome = "OSError"]
  /\ regPc' = [regPc EXCEPT ![r] = "idle"]
  /\ UNCHANGED <<diskVars, metadata_torn>>
  /\ UNCHANGED regRest

\* one caller of register_new_user, on the disk the kiosk starts on
NextPersist ==
  \/ Reg48(1) \/ Reg57(1)
  \/ Write88(1) \/ Write88Fails(1) \/ Write89(1)
  \/ Reg70(1) \/ Save111Fails(1)

SpecPersist == InitRegister /\ [][NextPersist]_vars

\* ------------------------------------------- specification of enrollment
\* the frames of the enrollment specification: nobody, one person well placed,
\* one person off centre, and a well placed person with a second, smaller face
\* behind
EnrollFrames ==
  { NoFaceFrame,
    Frame(<< Face(BoxAt(0, 0, 250, 315), 0) >>),
    Frame(<< Face(BoxAt(80, 0, 270, 350), 0) >>),
    Frame(<< Face(BoxAt(0, 0, 270, 350), 0), Face(BoxAt(80, 0, 210, 225), 2) >>) }

InitEnroll == InitKiosk({"test_app.py"})

\* StreamProcessor.generate and the handlers of test_app.py, submit_registration
\* included, one after the other
NextEnroll ==
  \/ \E l \in Loops :
       \/ LoopTurn /\ G36(l)
       \/ LoopTurn /\ G37(l)
       \/ LoopTurn /\ G39(l)
       \/ LoopTurn /\ G41(l, EnrollFrames)
       \/ LoopTurn /\ G47(l)
       \/ LoopTurn /\ G49(l)
       \/ LoopTurn /\ A72(l)
       \/ LoopTurn /\ R129(l)
       \/ LoopTurn /\ R146(l)
       \/ LoopTurn /\ R151(l)
       \/ LoopTurn /\ R152(l)
       \/ LoopTurn /\ R154(l)
       \/ LoopTurn /\ G56(l)
  \/ CmdTurn /\ CmdBegin
  \/ CmdTurn /\ Start349
  \/ CmdTurn /\ Recap357
  \/ CmdTurn /\ Recap358
  \/ CmdTurn /\ Cancel366
  \/ CmdTurn /\ Cancel367
  \/ CmdTurn /\ SubmitBegin
  \/ CmdTurn /\ Submit387
  \/ CmdTurn /\ Submit398
  \/ CmdTurn /\ Submit401
  \/ CmdTurn /\ Submit402

SpecEnroll == InitEnroll /\ [][NextEnroll]_vars

\* one line of StreamProcessor.generate, run while no request is being served
LoopStep ==
  \E l \in Loops :
    /\ LoopTurn
    /\ \/ G36(l) \/ G37(l) \/ G39(l) \/ G41(l, EnrollFrames) \/ G47(l) \/ G49(l)
       \/ A72(l) \/ R129(l) \/ R146(l) \/ R151(l) \/ R152(l) \/ R154(l) \/ G56(l)

\* the same program with a client that keeps reading /video_feed: the
\* generator is resumed again and again, so its next line is always run in the
\* end; nothing makes a request arrive
SpecLive == InitEnroll /\ [][NextEnroll]_vars /\ WF_vars(LoopStep)

\* ----------------------------------------------------------------- claims
\* C1: authenticate_face returns the name mapped to the userId of the
\* lowest-index gallery entry at minimum distance from the probe exactly when
\* the gallery is non-empty, that distance is <= tolerance and the name map
\* holds that userId; otherwise "Unknown".  The box is the probe's location.
C1_AuthenticateFaceContract ==
  call.op = "authenticate_face" =>
    LET n == Len(known_encodings)
        d(i) == DistSq(known_encodings[i], call.face.encoding)
        IsWinner(i) == /\ \A j \in 1..n : d(i) <= d(j)
                       /\ \A j \in 1..n : d(j) = d(i) => i <= j
        Accepts(i) == /\ IsWinner(i)
                      /\ d(i) <= tolerance * tolerance
                      /\ known_user_ids[i] \in DOMAIN user_id_to_name_map
    IN /\ Len(result) = 1
       /\ result[1].box = call.face.location
       /\ \A i \in 1..n :
            Accepts(i) => result[1].name = user_id_to_name_map[known_user_ids[i]]
       /\ (~ \E i \in 1..n : Accepts(i)) => result[1].name = Unknown

\* C1 witness: two entries of different users tie at the minimum distance,
\* which equals the tolerance, and the first entry's name is returned
C1_Witness ==
  /\ call.op = "authenticate_face"
  /\ Len(known_encodings) = 2
  /\ DistSq(known_encodings[1], call.face.encoding) = tolerance * tolerance
  /\ DistSq(known_encodings[2], call.face.encoding) = tolerance * tolerance
  /\ known_user_ids[1] # known_user_ids[2]
  /\ DOMAIN user_id_to_name_map = UserIds
  /\ user_id_to_name_map[known_user_ids[1]] # user_id_to_name_map[known_user_ids[2]]
  /\ result[1].name = user_id_to_name_map[known_user_ids[1]]

\* C2: with an empty gallery every matcher call returns a result named
\* "Unknown": authenticate_face for its probe, authenticate_frame one result
\* per detected face.
C2_EmptyGalleryAllUnknown ==
  known_encodings = << >> =>
    /\ call.op = "authenticate_face" =>
         Len(result) = 1 /\ result[1].name = Unknown
    /\ call.op = "authenticate_frame" =>
         /\ Len(result) = Len(call.faces)
         /\ \A i \in 1..Len(result) : result[i].name = Unknown

\* C3: gallery atomicity.  In every interleaving of a gallery load with a
\* matcher call, when the matcher applies the index it chose over the embedding
\* list to the userId list, the two lists have the same length and the index is
\* a valid index of the userId list.
C3_GalleryAtomicity ==
  matchPc = "m232" =>
    /\ Len(match_local.dist) = Len(known_user_ids)
    /\ argmin(match_local.dist) \in 1..Len(known_user_ids)

\* C4: no partial gallery update.  The step that ends a gallery load whose
\* encodings could not be loaded leaves the embedding list, the userId list and
\* the name map as they were.
C4_NoPartialGalleryUpdate ==
  [][(loadPc = "l204" /\ loadPc' = "idle" /\ ~ load_data.exists) =>
       UNCHANGED <<known_encodings, known_user_ids, user_id_to_name_map>>]_vars

\* C5: gate predicate.  The frame loop treats a frame as ready exactly when the
\* centre distance of its largest face is <= POSITION_THRESHOLD and the ratio of
\* the face area to the guide area is >= SIZE_THRESHOLD, both inclusive: in the
\* authentication branch of StreamProcessor, in its registration auto-freeze and
\* in generate_frames of app.py.  The centre of a box is the one get_box_center
\* computes.
C5_GatePredicate ==
  LET Ready(face) ==
        LET top == face.location[1]
            right == face.location[2]
            bottom == face.location[3]
            left == face.location[4]
            cx == left + (right - left) \div 2
            cy == top + (bottom - top) \div 2
            gx == 465 + 350 \div 2
            gy == 135 + 450 \div 2
        IN /\ (gx - cx) * (gx - cx) + (gy - cy) * (gy - cy) <= 50 * 50
           /\ 2 * (right - left) * (bottom - top) >= 350 * 450
  IN /\ \A l \in Loops :
          /\ (loopPc[l] = "g56" /\ loopOut[l].handler = "auth"
                /\ loopFrame[l].faces # << >>)
               => (loopOut[l].matched <=> Ready(largest_face(loopFrame[l].faces)))
          /\ loopPc[l] = "r151" => Ready(largest_face(loopFrame[l].faces))
          /\ (loopPc[l] = "r154" /\ mode = REGISTRATION_SEARCHING)
               => ~ Ready(largest_face(loopFrame[l].faces))
     /\ (app_cycle.frame # None /\ app_cycle.frame.faces # << >>)
          => (app_cycle.matched <=> Ready(largest_face(app_cycle.frame.faces)))

\* C5 witness: app.py has treated as ready a face whose centre is exactly
\* POSITION_THRESHOLD away from the guide centre and whose area is exactly half
\* the guide area.
C5_Witness ==
  /\ app_cycle.frame # None
  /\ app_cycle.matched
  /\ LET m == FaceMetrics(app_cycle.face) IN
       /\ m.distance_sq = 50 * 50
       /\ 2 * m.ratio_num = m.ratio_den

\* C6: feedback precedence.  When a face is detected and the gate is not ready,
\* the feedback is "center your face" if the centre distance is above
\* POSITION_THRESHOLD, whatever the size, and "move closer" otherwise; exactly
\* one of the two is shown.
C6_FeedbackPrecedence ==
  LET Expected(face) ==
        IF FaceMetrics(face).distance_sq > 50 * 50
          THEN "center your face" ELSE "move closer"
      SizeFails(face) ==
        2 * FaceMetrics(face).ratio_num < FaceMetrics(face).ratio_den
  IN /\ \A l \in Loops :
          (loopPc[l] = "g56" /\ loopFrame[l].faces # << >>
             /\ ~ loopOut[l].matched /\ loopOut[l].message # WillEnroll)
            => LET face == largest_face(loopFrame[l].faces) IN
                 /\ loopOut[l].message = Expected(face)
                 /\ loopOut[l].message = "move closer" =>
                      (FaceMetrics(face).distance_sq <= 50 * 50 /\ SizeFails(face))
     /\ (app_cycle.frame # None /\ app_cycle.frame.faces # << >>
           /\ ~ app_cycle.matched)
          => LET face == largest_face(app_cycle.frame.faces) IN
               /\ app_cycle.emitted = << Expected(face) >>
               /\ app_cycle.emitted = << "move closer" >> =>
                    (FaceMetrics(face).distance_sq <= 50 * 50 /\ SizeFails(face))

\* C6 witness: the authentication branch of the frame loop has answered
\* "center your face" to a face that is both off centre and too small.
C6_Witness ==
  \E l \in Loops :
    /\ loopPc[l] = "g56"
    /\ loopOut[l].handler = "auth"
    /\ loopFrame[l].faces # << >>
    /\ LET m == FaceMetrics(largest_face(loopFrame[l].faces)) IN
         /\ m.distance_sq > 50 * 50
         /\ 2 * m.ratio_num < m.ratio_den
    /\ loopOut[l].message = "center your face"

\* C7: the step that ends a submit accepted in REGISTRATION_FROZEN with a
\* captured frame leaves mode = AUTHENTICATING and the captured frame discarded,
\* the new user being in the metadata.
C7_SubmitEndsAuthenticating ==
  [][(cmdPc = "submit402" /\ cmdPc' = "idle"
        /\ mode = REGISTRATION_FROZEN /\ captured_frame # None) =>
       /\ mode' = AUTHENTICATING
       /\ captured_frame' = None
       /\ \E i \in 1..Len(metadata') : metadata'[i].name = cmdName]_vars

\* C8: once a submit has completed, the three in-memory structures of the
\* matcher are the rebuilt gallery: the lists of the encodings file and the name
\* map of the metadata, the new user included.
C8_GallerySwappedAfterSubmit ==
  (cmdPc = "idle" /\ lastCmd = "submit") =>
    /\ known_encodings = encodings_file.encodings
    /\ known_user_ids = encodings_file.user_ids
    /\ user_id_to_name_map = NameMapOf(metadata)
    /\ uuid_count \in DOMAIN user_id_to_name_map

\* C9: a submit with an empty name or with no captured frame is answered with an
\* error and changes neither the mode, the captured frame, the persisted data
\* nor the gallery.
C9_SubmitRejectedChangesNothing ==
  [][(cmdPc = "submit387" /\ cmdPc' # "submit387"
        /\ (cmdName = "" \/ captured_frame = None)) =>
       /\ cmdPc' = "idle"
       /\ response' = "error"
       /\ UNCHANGED <<mode, captured_frame, metadata, dataset, encodings_file,
                      uuid_count, known_encodings, known_user_ids,
                      user_id_to_name_map>>]_vars

\* C9 witness: a submit with a name but no captured frame, issued in
\* AUTHENTICATING, has been refused.
C9_Witness ==
  /\ cmdPc = "idle"
  /\ lastCmd = "submit_refused"
  /\ response = "error"
  /\ cmdName \in Names
  /\ mode = AUTHENTICATING
  /\ captured_frame = None
  /\ metadata = << >>

\* C10: a command is not lost to an auto-freeze in flight.  After
\* cancel_registration has returned and until the next command, mode is
\* AUTHENTICATING and no frame is captured; after recapture has returned and
\* until the next command, captured_frame holds no frame taken before it.
C10_CommandNotLostToAutoFreeze ==
  /\ (cmdPc = "idle" /\ lastCmd = "cancel") =>
       (mode = AUTHENTICATING /\ captured_frame = None)
  /\ (cmdPc = "idle" /\ lastCmd = "recapture") =>
       ~ (captured_frame # None /\ capturedStale)

\* C11: when no command and no cycle is in progress, a session whose mode is
\* AUTHENTICATING or REGISTRATION_SEARCHING holds no captured frame: every
\* transition into these modes has discarded it.
C11_NoFrameOutsideFrozen ==
  (program = "test_app.py" /\ cmdPc = "idle" /\ AllLoopsAtTop
     /\ mode \in {AUTHENTICATING, REGISTRATION_SEARCHING})
    => captured_frame = None

\* C12: start_registration issued in AUTHENTICATING returns with mode =
\* REGISTRATION_SEARCHING and no captured frame, so that status reports
\* isFrameCaptured = false.
C12_StartClearsStaleFrame ==
  [][(cmdPc = "start349" /\ cmdPc' = "idle" /\ mode = AUTHENTICATING) =>
       /\ mode' = REGISTRATION_SEARCHING
       /\ captured_frame' = None
       /\ ~ status'.isFrameCaptured]_vars

C17_AuthenticationSequence ==
  LET Ready(face) ==
        LET top == face.location[1]
            right == face.location[2]
            bottom == face.location[3]
            left == face.location[4]
            cx == left + (right - left) \div 2
            cy == top + (bottom - top) \div 2
            gx == 465 + 350 \div 2
            gy == 135 + 450 \div 2
        IN /\ (gx - cx) * (gx - cx) + (gy - cy) * (gy - cy) <= 50 * 50
           /\ 2 * (right - left) * (bottom - top) >= 350 * 450
      ReadyFrame(f) == f # None /\ f.faces # << >> /\ Ready(largest_face(f.faces))
  IN /\ \A l \in Loops :
          (loopPc[l] \in {"g56", "t177"} /\ loopOut[l].handler = "auth") =>
            IF ReadyFrame(loopFrame[l])
              THEN /\ loopHist[l].matcher_calls = 1
                   /\ loopHist[l].emitted # << >>
                   /\ loopHist[l].emitted[1] = "authenticating"
                   /\ loopOut[l].message = "result"
              ELSE loopHist[l].matcher_calls = 0
     /\ app_cycle.frame # None =>
          IF ReadyFrame(app_cycle.frame)
            THEN /\ app_cycle.matched
                 /\ Len(app_cycle.emitted) >= 2
                 /\ app_cycle.emitted[1] = "authenticating"
                 /\ \A i \in 2..Len(app_cycle.emitted) : app_cycle.emitted[i] = "result"
            ELSE ~ app_cycle.matched

\* C18: detection failure.  When the face detector raises on a frame, the cycle
\* treats the frame as one with no face: it goes on to yield a frame without
\* feedback, the mode is the one the cycle started in, and the generator is
\* still running.
C18_DetectionFailureDegrades ==
  \A l \in Loops :
    loopHist[l].raised = "detector" =>
      /\ loopPc[l] \in {"g56", "t177"}
      /\ loopOut[l].message = NoMessage
      /\ loopOut[l].face = NoFace
      /\ mode = loopHist[l].mode0

\* C19: camera miss.  When get_frame returns no frame the cycle is skipped: no
\* frame is emitted, the session is not changed, a backoff is taken before the
\* next read and the loop is back at its top, in StreamProcessor.generate, in
\* generate_frames of test_app.py and in generate_frames of app.py.
C19_CameraMissSkipped ==
  [][/\ \A l \in Loops :
          (loopPc[l] \in {"g41", "t162"} /\ loopPc'[l] \in {"g36", "t157"}) =>
            /\ loopHist'[l].slept
            /\ loopHist'[l].pulls = 1
            /\ loopHist'[l].emitted = << >>
            /\ loopHist'[l].raised = "no"
            /\ UNCHANGED sessVars
     /\ (app_cycle' # app_cycle /\ app_cycle'.frame = None) =>
            /\ app_cycle'.pulls = 1
            /\ app_cycle'.emitted = << >>
            /\ app_cycle'.slept
            /\ UNCHANGED sessVars]_vars

\* C20: password gate.  A check_password with a wrong password answers with an
\* error and changes nothing of the session, and as long as no check_password
\* has succeeded the mode is AUTHENTICATING.
C20_PasswordGate ==
  [][/\ (cmdPc = "check340" /\ cmdPc' = "idle" /\ cmdName # "704lIlac") =>
            /\ response' = "error"
            /\ UNCHANGED sessVars
            /\ ~ passwordOk' 
     /\ ~ passwordOk' => mode' = AUTHENTICATING]_vars

\* C21: legal transitions.  The mode changes only from AUTHENTICATING to
\* REGISTRATION_SEARCHING by start_registration, from REGISTRATION_SEARCHING to
\* REGISTRATION_FROZEN by the frame loop, from REGISTRATION_FROZEN to
\* REGISTRATION_SEARCHING by recapture, from a registration mode to
\* AUTHENTICATING by cancel_registration and from REGISTRATION_FROZEN to
\* AUTHENTICATING by submit_registration; and submit_registration goes past
\* its checks only in REGISTRATION_FROZEN.
C21_LegalTransitions ==
  [][/\ mode' # mode =>
          \/ /\ mode = AUTHENTICATING /\ mode' = REGISTRATION_SEARCHING
             /\ cmdPc = "start349"
          \/ /\ mode = REGISTRATION_SEARCHING /\ mode' = REGISTRATION_FROZEN
             /\ loopPc' # loopPc
          \/ /\ mode = REGISTRATION_FROZEN /\ mode' = REGISTRATION_SEARCHING
             /\ cmdPc = "recap357"
          \/ /\ mode \in {REGISTRATION_SEARCHING, REGISTRATION_FROZEN}
             /\ mode' = AUTHENTICATING
             /\ cmdPc = "cancel366"
          \/ /\ mode = REGISTRATION_FROZEN /\ mode' = AUTHENTICATING
             /\ cmdPc \in {"submit398", "submit401", "submit402"}
     /\ (cmdPc = "recap357" /\ cmdPc' # cmdPc /\ mode = AUTHENTICATING) =>
          mode' = AUTHENTICATING
     /\ (cmdPc = "start349" /\ cmdPc' # cmdPc /\ mode = REGISTRATION_FROZEN) =>
          mode' = REGISTRATION_FROZEN
     /\ (cmdPc = "submit387" /\ cmdPc' = "submit398") =>
          mode = REGISTRATION_FROZEN]_vars

\* C22: enrollment keeps the users.  Every write of the metadata by
\* register_new_user leaves each record that was persisted before it present
\* and unchanged and adds exactly one record, whatever read_metadata returned
\* and however two registrations interleave.
C22_EnrollmentKeepsUsers ==
  [][metadata' # metadata =>
       /\ Len(metadata') = Len(metadata) + 1
       /\ \A i \in 1..Len(metadata) : metadata'[i] = metadata[i]]_vars

\* C23: a command is seen by the next cycle.  A cycle of the frame loop that
\* begins after cancel_registration has returned, no other command having
\* arrived since, reads mode = AUTHENTICATING and goes to the camera; a cycle
\* that begins after recapture has returned does not render a frame captured
\* before the recapture.
C23_CommandSeenByNextCycle ==
  [][\A l \in Loops :
       /\ (loopPc[l] \in {"g36", "t157"} /\ loopPc'[l] # loopPc[l]
             /\ cmdPc = "idle" /\ lastCmd = "cancel") =>
            /\ mode = AUTHENTICATING
            /\ loopPc'[l] \in {"g41", "t162"}
       /\ (loopPc[l] \in {"g39", "t160"} /\ loopPc'[l] \in {"g47", "t169"}
             /\ cmdPc = "idle" /\ lastCmd = "recapture") =>
            ~ loopStale'[l]]_vars

\* C24: authenticate_frame decides each face on its own.  The result has one
\* entry per detected face, in detection order, with the face's box; the name of
\* an entry is the mapped name of the winning gallery entry when that face's own
\* minimum distance is <= tolerance and the winner's userId is in the name map,
\* and "Unknown" otherwise, whatever the earlier faces of the frame were given.
\* Stated for a gallery that is not empty.
C24_FacesDecidedIndependently ==
  (call.op = "authenticate_frame" /\ known_encodings # << >>) =>
    LET n == Len(known_encodings)
        Own(face) ==
          LET d(i) == (known_encodings[i] - face.encoding)
                        * (known_encodings[i] - face.encoding)
              Wins(i) == /\ \A j \in 1..n : d(i) <= d(j)
                         /\ \A j \in 1..(i - 1) : d(j) > d(i)
                         /\ d(i) <= tolerance * tolerance
                         /\ known_user_ids[i] \in DOMAIN user_id_to_name_map
          IN IF \E i \in 1..n : Wins(i)
               THEN user_id_to_name_map[known_user_ids[CHOOSE i \in 1..n : Wins(i)]]
               ELSE "Unknown"
    IN /\ Len(result) = Len(call.faces)
       /\ \A k \in 1..Len(result) :
            /\ result[k].box = call.faces[k].location
            /\ result[k].name = Own(call.faces[k])

\* C25: a frozen session holds a frame.  Whenever no handler and no cycle is
\* under way, mode = REGISTRATION_FROZEN implies that captured_frame is
\* present, and the detection step of a cycle that runs in REGISTRATION_FROZEN
\* changes neither the mode nor the captured frame.
C25_FrozenHasFrame ==
  [][/\ (cmdPc' = "idle" /\ AllLoopsAtTop' /\ mode' = REGISTRATION_FROZEN) =>
          captured_frame' # None
     /\ \A l \in Loops :
          (loopPc[l] \in {"r129", "t289"} /\ loopPc'[l] # loopPc[l]
             /\ mode = REGISTRATION_FROZEN) =>
            UNCHANGED sessVars]_vars

\* C26: no terminal state.  A frame loop never ends: whatever the mode and
\* whatever the detector finds in the frame (no face, a face that is not ready,
\* a ready face), no statement of a cycle raises, so the generator is never
\* ended by an exception of its own code (a detector that itself raises is the
\* only exception left aside here).
C26_LoopNeverEnds ==
  \A l \in Loops :
    /\ loopHist[l].raised \in {"no", "detector"}
    /\ loopPc[l] \in {"crashed", "t_ended"} => loopHist[l].raised = "detector"

\* C27: exact centre distance.  For the largest face of every frame a loop
\* handles, the distance calculate_face_metrics returns is the distance between
\* the exact centre of the face box and the exact centre of the guide box, and
\* the position test of the gate agrees with
\* (exact distance)^2 <= POSITION_THRESHOLD^2.  The exact centres are compared
\* in half pixels: twice the centre of a box is (2 * left + w, 2 * top + h).
C27_ExactCentreDistance ==
  LET ExactSq4(face) ==
        LET top == face.location[1]
            right == face.location[2]
            bottom == face.location[3]
            left == face.location[4]
            ex == (2 * 465 + 350) - (left + right)
            ey == (2 * 135 + 450) - (top + bottom)
        IN ex * ex + ey * ey
      Agrees(f) ==
        (f # None /\ f.faces # << >>) =>
          LET face == largest_face(f.faces)
              m == FaceMetrics(face)
          IN /\ 4 * m.distance_sq = ExactSq4(face)
             /\ DistanceOk(m) <=> (ExactSq4(face) <= 4 * 50 * 50)
  IN /\ \A l \in Loops : Agrees(loopFrame[l])
     /\ Agrees(app_cycle.frame)

\* C28: the frozen frame is there when it is copied.  Between the test that
\* captured_frame is not None and captured_frame.copy(), no handler clears the
\* frame: a loop that is about to copy finds a frame, and no loop has been ended
\* by copying an absent one.
C28_CopyFindsFrame ==
  \A l \in Loops :
    /\ loopPc[l] \in {"g39", "t160"} => captured_frame # None
    /\ loopPc[l] # "crashed"
    /\ loopHist[l].raised # "AttributeError"

\* C29: the matcher sees live frames only.  Whenever the authentication handler
\* of a frame loop has run on a frame, and in particular when it has invoked the
\* matcher, that frame was read from the camera in the same cycle and is not a
\* copy of captured_frame.
C29_MatcherOnLiveFrame ==
  \A l \in Loops :
    /\ loopPc[l] = "a72" => loopHist[l].pulls = 1
    /\ (loopPc[l] = "g56" /\ loopOut[l].handler = "auth") =>
         /\ loopHist[l].pulls = 1
         /\ loopHist[l].matcher_calls > 0 =>
              ~ (loopHist[l].mode0 = REGISTRATION_FROZEN /\ loopHist[l].captured0)

\* C30: submit enrolls the frame it tested.  When submit_registration calls
\* register_new_user, captured_frame still holds a frame, so the image list
\* never contains an absent frame, and no record is added to the metadata by a
\* submit whose frame has been cleared.
C30_SubmitEnrollsTestedFrame ==
  [][(cmdPc = "submit398" /\ cmdPc' # cmdPc) =>
       /\ captured_frame # None
       /\ metadata' # metadata => captured_frame # None
       /\ response' # "exception"]_vars

\* C31: a captured frame is enrollable.  When submit_registration has
\* registered a user from the captured frame and rebuilt the encodings, the
\* encodings file holds at least one entry under the id of the new user,
\* whatever frame the auto-freeze captured.
C31_CapturedFrameEnrollable ==
  [][(cmdPc = "submit401" /\ cmdPc' = "submit402") =>
       /\ encodings_file'.exists
       /\ \E i \in 1..Len(encodings_file'.user_ids) :
            encodings_file'.user_ids[i] = metadata[Len(metadata)].user_id]_vars

\* C32: largest-face selection.  The face a cycle gates, matches and annotates
\* is the face of greatest box area of the frame of that cycle, and among faces
\* of equal greatest area the first in the detector's order; it is a function
\* of that frame alone.
C32_LargestFaceSelection ==
  LET Area(f) == (f.location[2] - f.location[4]) * (f.location[3] - f.location[1])
      IsChosen(faces, i) ==
        /\ \A j \in 1..Len(faces) : Area(faces[j]) <= Area(faces[i])
        /\ \A j \in 1..(i - 1) : Area(faces[j]) < Area(faces[i])
      Chosen(faces) == faces[CHOOSE i \in 1..Len(faces) : IsChosen(faces, i)]
  IN /\ \A l \in Loops :
          (loopPc[l] \in {"g56", "t321"} /\ loopFrame[l].faces # << >>
             /\ loopOut[l].handler \in {"auth", "reg"}) =>
            loopOut[l].face = Chosen(loopFrame[l].faces)
     /\ (app_cycle.frame # None /\ app_cycle.frame.faces # << >>) =>
          app_cycle.face = Chosen(app_cycle.frame.faces)

\* C32 witness: a cycle has chosen the first of two faces of equal, greatest
\* area that differ in place.
C32_Witness ==
  \E l \in Loops :
    /\ loopPc[l] = "g56"
    /\ Len(loopFrame[l].faces) = 2
    /\ loopFrame[l].faces[1] # loopFrame[l].faces[2]
    /\ get_face_properties(loopFrame[l].faces[1].location).area
         = get_face_properties(loopFrame[l].faces[2].location).area
    /\ loopOut[l].face = loopFrame[l].faces[1]

\* C33: register_new_user is all or nothing.  A call that returns a userId has
\* persisted the UserRecord of that userId and its images; a call that ends in
\* an error while saving the images leaves no UserRecord of its userId in the
\* metadata; a call with an empty name persists nothing.
C33_RegisterAllOrNothing ==
  [][\A r \in Regs :
       LET HasRecord(md) == \E i \in 1..Len(md) : md[i].user_id = regLocal[r].user_id
       IN /\ (regPc[r] = "r70" /\ regPc'[r] = "idle" /\ regLocal'[r].outcome = "ok") =>
               HasRecord(metadata') /\ dataset'[regLocal[r].user_id] # << >>
          /\ (regPc[r] = "r70" /\ regPc'[r] = "idle" /\ regLocal'[r].outcome = "OSError") =>
               ~ HasRecord(metadata')
          /\ (regPc[r] = "idle" /\ regLocal'[r].outcome = "ValueError") =>
               UNCHANGED <<diskVars, metadata_torn>>]_vars

\* C34: liveness of capture.  With the frame loop weakly fair: if the mode is
\* REGISTRATION_SEARCHING, no command is issued from then on, and from some
\* point on the camera never misses and every frame it returns has a largest
\* face that passes the gate, then eventually the auto-freeze (lines 151-152)
\* has run: the mode is REGISTRATION_FROZEN with captured_frame present; and
\* from a completed freeze on, every step taken while no command is issued
\* keeps the mode and the captured frame.
C34_CaptureLiveness ==
  /\ LET NoCommand == cmdPc = "idle"
         CameraReady ==
           \A l \in Loops :
             /\ ~ loopHist[l].slept
             /\ (loopPc[l] = "g47" /\ loopHist[l].pulls > 0) =>
                  /\ loopFrame[l].faces # << >>
                  /\ RegGate(FaceMetrics(largest_face(loopFrame[l].faces)))
         FreezeDone ==
           /\ mode = REGISTRATION_FROZEN
           /\ captured_frame # None
           /\ \A l \in Loops : loopPc[l] # "r152"
     IN []((mode = REGISTRATION_SEARCHING /\ []NoCommand /\ <>[]CameraReady)
             => <>FreezeDone)
  /\ [][(/\ mode = REGISTRATION_FROZEN
          /\ captured_frame # None
          /\ \A l \in Loops : loopPc[l] # "r152"
          /\ cmdPc = "idle"
          /\ cmdPc' = "idle") =>
            (mode' = REGISTRATION_FROZEN /\ captured_frame' = captured_frame)]_vars

\* C34 witness: after start_registration and no other command, the loop has
\* frozen on a camera frame and has since rendered a whole cycle from the
\* captured frame.
C34_Witness ==
  /\ cmdPc = "idle"
  /\ lastCmd = "start"
  /\ mode = REGISTRATION_FROZEN
  /\ captured_frame # None
  /\ \E l \in Loops :
       /\ loopPc[l] = "g56"
       /\ loopHist[l].mode0 = REGISTRATION_FROZEN
       /\ loopHist[l].captured0
       /\ loopHist[l].pulls = 0
       /\ loopFrame[l] = captured_frame
       /\ loopOut[l].message = WillEnroll

====
